---- MODULE Spec2Model ----
(***************************************************************************)
(* Web-of-trust pending-vouch verification (go/libkb/wot.go).              *)
(*                                                                         *)
(* FetchPendingWotVouches asks the server for the pending vouches and      *)
(* runs transformPending over every reported record; transformPending      *)
(* checks the record against the voucher's sigchain, the expansion hash,   *)
(* the local identity and the confidence normalizer.                       *)
(***************************************************************************)
EXTENDS Integers, Sequences, FiniteSets, TLC

VARIABLES
    users,      \* the sigchain subsystem: uid -> loaded user (or load failure)
    me,         \* what LoadMe yields: the local identity (or load failure)
    response,   \* what the API call yields: GetPendingWotVouches or an error
    session,    \* whether the client holds a logged-in session
    pc,         \* position of FetchPendingWotVouches: "start", "loop", "done"
    idx,        \* 1-based index of the next element of response.Pending
    res,        \* the named result res []keybase1.PendingVouch
    err,        \* the named result err (<<>> is nil)
    trace,      \* the collaborator calls made so far, in order
    ctxDone,    \* whether the call's context (mctx.Ctx()) has been cancelled
    prev        \* what the earlier invocations returned, oldest first

vars == <<users, me, response, session, pc, idx, res, err, trace, ctxDone, prev>>

\* ------------------------------------------------------------------ bounds
MaxBatch == 2
MaxVouchedBy == 2
MaxCalls == 2

\* ------------------------------------------------------------------ errors
\* An error is the sequence of messages fmt.Errorf nests; nil is <<>>.
Nil == <<>>
Errorf(msg) == <<msg>>
Wrap(msg, e) == <<msg>> \o e

Call(name, arg) == [call |-> name, arg |-> arg]

\* ------------------------------------------------------------------ contexts
\* The functions hand mctx to the collaborators that may block; none of the
\* functions tests the context itself. An mctx is given by the collaborator
\* calls that report its cancellation: none for a live context, and any of
\* them for a cancelled one: the API call is a network round trip and always
\* reports it, a load or lookup served without blocking need not.
CtxCalls == {"API.GetDecode", "LoadUser", "LoadMe", "LookupUsername"}
Background == {}
Contexts(done) ==
    IF done THEN {c \in SUBSET CtxCalls : "API.GetDecode" \in c} ELSE {Background}
ContextCanceled == Errorf("context canceled")

\* ------------------------------------------------------------------ JSON values
\* interface{} values as encoding/json produces them. Every value has the
\* same fields, so values of different JSON types can be compared.
Absent == [t |-> "absent", s |-> "", n |-> 0, a |-> <<>>]
JStr(x) == [t |-> "string", s |-> x, n |-> 0, a |-> <<>>]
JNum(x) == [t |-> "number", s |-> "", n |-> x, a |-> <<>>]
JArr(q) == [t |-> "array", s |-> "", n |-> 0, a |-> q]
\* elements of an array: scalars
EStr(x) == [t |-> "string", s |-> x, n |-> 0]
ENum(x) == [t |-> "number", s |-> "", n |-> x]

\* ------------------------------------------------------------------ identities
UidV == "uid_V"
UidBob == "uid_bob"
UidAlice == "uid_alice"
UidGone == "uid_gone"          \* an id the lookup service cannot resolve
UidX == "uid_X"                \* a voucher whose sigchain fails to load

\* GetUPAKLoader().LookupUsername: uid -> username, or an error
UsernameOf(uid) ==
    CASE uid = UidV -> "victor"
      [] uid = UidBob -> "bob"
      [] uid = UidAlice -> "alice"
      [] OTHER -> ""
Resolves(uid) == uid \in {UidV, UidBob, UidAlice}
LookupUsername(mctx, uid) ==
    IF "LookupUsername" \in mctx
    THEN [ok |-> FALSE, username |-> "", err |-> ContextCanceled]
    ELSE IF Resolves(uid)
    THEN [ok |-> TRUE, username |-> UsernameOf(uid), err |-> Nil]
    ELSE [ok |-> FALSE, username |-> "", err |-> Errorf("LookupUsername: not found")]

\* ------------------------------------------------------------------ chain links
NoLink == [exists |-> FALSE, revoked |-> FALSE, kind |-> "", ExpansionID |-> <<>>]
Link(revoked, kind, eid) ==
    [exists |-> TRUE, revoked |-> revoked, kind |-> kind, ExpansionID |-> eid]
\* link types: the wot.vouch type, another known type, a type NewTypedChainLink
\* does not know (it returns a warning)
LinkKinds == {"wot.vouch", "track", "unknown"}

SigIDs == {"sig_123", "sig_124", "sig_rev", "sig_track", "sig_bob", "sig_conf",
           "sig_undec", "sig_none"}

\* user.LinkFromSigID(sigID): nil when the chain has no such link
LinkFromSigID(user, sigID) == user.links[sigID]

\* NewTypedChainLink(link): the typed link and a warning for an unknown type
NewTypedChainLink(link) ==
    [tlink |-> link.kind, w |-> link.kind \notin {"wot.vouch", "track"}]

\* a nil *User
NilUser == [loads |-> FALSE, uv |-> [Uid |-> "", EldestSeqno |-> 0], links |-> <<>>]

\* LoadUser(NewLoadUserArgWithMetaContext(mctx).WithUID(uid)) -> (user, err)
LoadUser(mctx, us, uid) ==
    IF "LoadUser" \in mctx THEN [user |-> NilUser, err |-> ContextCanceled]
    ELSE IF ~us[uid].loads THEN [user |-> NilUser, err |-> Errorf("load failed")]
    ELSE [user |-> us[uid], err |-> Nil]

RevokedCheck_skipped(link) == FALSE
\* wot.go:20  if link.revoked
RevokedCheck(link) == link.revoked

\* the type narrowing moved before the revocation test
getWotVouchChainLink_typeFirst(mctx, us, uid, sigID) ==
    LET l == LoadUser(mctx, us, uid)
        user == l.user
        fail(e) == [ok |-> FALSE, link |-> NoLink, voucher |-> NilUser, err |-> e,
                    calls |-> <<Call("LoadUser", uid)>>]
    IN  IF l.err # Nil THEN fail(Wrap("Error loading user", l.err))
        ELSE LET link == LinkFromSigID(user, sigID) IN
             IF ~link.exists THEN fail(Errorf("Could not find link from sigID"))
             ELSE LET t == NewTypedChainLink(link) IN
                  IF t.w THEN fail(Errorf("Could not get typed chain link"))
                  ELSE IF t.tlink # "wot.vouch"
                       THEN fail(Errorf("Link is not a WotVouchChainLink"))
                       ELSE IF RevokedCheck(link) THEN fail(Errorf("Link is revoked"))
                       ELSE [ok |-> TRUE, link |-> link, voucher |-> user,
                             err |-> Nil, calls |-> <<Call("LoadUser", uid)>>]

\* getWotVouchChainLink(mctx, uid, sigID) -> (cl, voucher, err)
getWotVouchChainLink(mctx, us, uid, sigID) ==
    LET l == LoadUser(mctx, us, uid)
        user == l.user
        fail(e) == [ok |-> FALSE, link |-> NoLink, voucher |-> NilUser, err |-> e,
                    calls |-> <<Call("LoadUser", uid)>>]
    IN  IF l.err # Nil THEN fail(Wrap("Error loading user", l.err))
        ELSE LET link == LinkFromSigID(user, sigID) IN
             IF ~link.exists THEN fail(Errorf("Could not find link from sigID"))
             ELSE IF RevokedCheck(link) THEN fail(Errorf("Link is revoked"))
             ELSE LET t == NewTypedChainLink(link) IN
                  IF t.w THEN fail(Errorf("Could not get typed chain link"))
                  ELSE IF t.tlink # "wot.vouch"
                       THEN fail(Errorf("Link is not a WotVouchChainLink"))
                       ELSE [ok |-> TRUE, link |-> link, voucher |-> user,
                             err |-> Nil, calls |-> <<Call("LoadUser", uid)>>]

\* ------------------------------------------------------------------ local identity
SubjectEqual_noKID(m, vouchedUser) ==
    IF m.name # vouchedUser.Username THEN Errorf("wot username isn't me")
    ELSE IF m.uid # vouchedUser.UID THEN Errorf("wot uid isn't me")
    ELSE Nil
SubjectEqual_uidFirst(m, vouchedUser) ==
    IF m.uid # vouchedUser.UID THEN Errorf("wot uid isn't me")
    ELSE IF m.name # vouchedUser.Username THEN Errorf("wot username isn't me")
    ELSE IF m.kid # vouchedUser.KID THEN Errorf("wot eldest kid isn't me")
    ELSE Nil
\* wot.go:41-50: the three comparisons, in order
SubjectEqual(m, vouchedUser) ==
    IF m.name # vouchedUser.Username THEN Errorf("wot username isn't me")
    ELSE IF m.uid # vouchedUser.UID THEN Errorf("wot uid isn't me")
    ELSE IF m.kid # vouchedUser.KID THEN Errorf("wot eldest kid isn't me")
    ELSE Nil

\* LoadMe(NewLoadUserArgWithMetaContext(mctx)) -> (me, err)
LoadMe(mctx, m) ==
    IF "LoadMe" \in mctx THEN [me |-> m, err |-> ContextCanceled]
    ELSE IF ~m.ok THEN [me |-> m, err |-> Errorf("load failed")]
    ELSE [me |-> m, err |-> Nil]

\* the comparison made against an identity held from before, without a load
assertVouchIsForMe_cached(mctx, m, vouchedUser) ==
    [err |-> SubjectEqual(m, vouchedUser), calls |-> <<>>]
assertVouchIsForMe_ignoreLoadErr(mctx, m, vouchedUser) ==
    LET l == LoadMe(mctx, m) IN
    IF l.err # Nil
    THEN [err |-> Nil, calls |-> <<Call("LoadMe", "")>>]
    ELSE [err |-> SubjectEqual(l.me, vouchedUser), calls |-> <<Call("LoadMe", "")>>]
\* assertVouchIsForMe(mctx, vouchedUser) -> err, with the calls it makes
assertVouchIsForMe(mctx, m, vouchedUser) ==
    LET l == LoadMe(mctx, m) IN
    IF l.err # Nil
    THEN [err |-> Wrap("error loading myself", l.err), calls |-> <<Call("LoadMe", "")>>]
    ELSE [err |-> SubjectEqual(l.me, vouchedUser), calls |-> <<Call("LoadMe", "")>>]

\* ------------------------------------------------------------------ confidence
K_uvv == "username_verified_via"
K_vb == "vouched_by"
\* keys that differ from a schema key in letter case only, and an unrelated key
K_UVV == "Username_Verified_Via"
K_VB == "Vouched_By"
K_foo == "foo"
ConfKeys == {K_uvv, K_vb, K_UVV, K_VB, K_foo}

\* json.Marshal writes the keys of a map in sorted (byte) order: upper case
\* letters sort before "_" and before lower case letters.
SortedKeys == <<K_UVV, K_VB, K_foo, K_uvv, K_vb>>

\* strings.ToUpper on the strings the model draws
ToUpper(s) ==
    CASE s \in {"video", "Video", "VIDEO"} -> "VIDEO"
      [] s \in {"audio", "AUDIO"} -> "AUDIO"
      [] s \in {"none", "NONE"} -> "NONE"
      [] s = "bogus" -> "BOGUS"
      [] s = "" -> ""

\* keybase1.UsernameVerificationTypeMap
UsernameVerificationTypeMap ==
    [k \in {"NONE", "AUDIO", "VIDEO"} |->
        CASE k = "NONE" -> 0 [] k = "AUDIO" -> 1 [] k = "VIDEO" -> 2]

\* Go map indexing m[k]: the zero value when k is not a key
MapIndex(m, k) == IF k \in DOMAIN m THEN m[k] ELSE 0

\* wot.go:78  keybase1.UsernameVerificationTypeMap[strings.ToUpper(verification)]
VerificationCode(verification) ==
    MapIndex(UsernameVerificationTypeMap, ToUpper(verification))

\* keybase1.Confidence and its zero value
Confidence(via, by) == [UsernameVerifiedVia |-> via, VouchedBy |-> by]
ZeroConfidence == Confidence(0, <<>>)

\* result of standardizeConfidence: the record (nil on error), the error, the
\* map as the call leaves it, and the lookups made
ConfResult(ok, c, e, m, calls) ==
    [ok |-> ok, confidence |-> c, err |-> e, m |-> m, calls |-> calls]

RewriteVerifiedVia_acceptCode(m) ==
    IF m[K_uvv].t = "string"
    THEN [ok |-> TRUE, err |-> Nil,
          m |-> [m EXCEPT ![K_uvv] = JNum(VerificationCode(m[K_uvv].s))]]
    ELSE IF m[K_uvv].t \in {"absent", "number"}
         THEN [ok |-> TRUE, err |-> Nil, m |-> m]
         ELSE [ok |-> FALSE, err |-> Errorf("cannot convert into UsernameVerifiedVia"), m |-> m]
\* wot.go:72-79: username_verified_via
RewriteVerifiedVia(m) ==
    IF m[K_uvv].t # "absent"
    THEN IF m[K_uvv].t # "string"
         THEN [ok |-> FALSE, err |-> Errorf("cannot convert into UsernameVerifiedVia"), m |-> m]
         ELSE [ok |-> TRUE, err |-> Nil,
               m |-> [m EXCEPT ![K_uvv] = JNum(VerificationCode(m[K_uvv].s))]]
    ELSE [ok |-> TRUE, err |-> Nil, m |-> m]

RECURSIVE LookupLoop_prepend(_, _, _, _, _)
LookupLoop_prepend(mctx, uids, i, usernames, calls) ==
    IF i > Len(uids)
    THEN [ok |-> TRUE, err |-> Nil, usernames |-> usernames, calls |-> calls]
    ELSE IF uids[i].t # "string"
         THEN [ok |-> FALSE, err |-> Errorf("cannot convert into uid"),
               usernames |-> <<>>, calls |-> calls]
         ELSE LET r == LookupUsername(mctx, uids[i].s)
                  c == Append(calls, Call("LookupUsername", uids[i].s))
              IN  IF ~r.ok
                  THEN [ok |-> FALSE, err |-> r.err, usernames |-> <<>>, calls |-> c]
                  ELSE LookupLoop_prepend(mctx, uids, i + 1, <<EStr(r.username)>> \o usernames, c)

RECURSIVE LookupLoop_skip(_, _, _, _, _)
LookupLoop_skip(mctx, uids, i, usernames, calls) ==
    IF i > Len(uids)
    THEN [ok |-> TRUE, err |-> Nil, usernames |-> usernames, calls |-> calls]
    ELSE IF uids[i].t # "string"
         THEN [ok |-> FALSE, err |-> Errorf("cannot convert into uid"),
               usernames |-> <<>>, calls |-> calls]
         ELSE LET r == LookupUsername(mctx, uids[i].s)
                  c == Append(calls, Call("LookupUsername", uids[i].s))
              IN  IF ~r.ok
                  THEN LookupLoop_skip(mctx, uids, i + 1, usernames, c)
                  ELSE LookupLoop_skip(mctx, uids, i + 1, Append(usernames, EStr(r.username)), c)

\* wot.go:88-98: the loop over vouchedByUIDs, from element i on
RECURSIVE LookupLoop(_, _, _, _, _)
LookupLoop(mctx, uids, i, usernames, calls) ==
    IF i > Len(uids)
    THEN [ok |-> TRUE, err |-> Nil, usernames |-> usernames, calls |-> calls]
    ELSE IF uids[i].t # "string"
         THEN [ok |-> FALSE, err |-> Errorf("cannot convert into uid"),
               usernames |-> <<>>, calls |-> calls]
         ELSE LET r == LookupUsername(mctx, uids[i].s)
                  c == Append(calls, Call("LookupUsername", uids[i].s))
              IN  IF ~r.ok
                  THEN [ok |-> FALSE, err |-> r.err, usernames |-> <<>>, calls |-> c]
                  ELSE LookupLoop(mctx, uids, i + 1, Append(usernames, EStr(r.username)), c)

\* wot.go:81-100: vouched_by
RewriteVouchedBy(mctx, m) ==
    IF m[K_vb].t # "absent"
    THEN IF m[K_vb].t # "array"
         THEN [ok |-> FALSE, err |-> Errorf("cannot convert into list of uids"),
               m |-> m, calls |-> <<>>]
         ELSE LET l == LookupLoop(mctx, m[K_vb].a, 1, <<>>, <<>>) IN
              IF ~l.ok
              THEN [ok |-> FALSE, err |-> l.err, m |-> m, calls |-> l.calls]
              ELSE [ok |-> TRUE, err |-> Nil,
                    m |-> [m EXCEPT ![K_vb] = JArr(l.usernames)], calls |-> l.calls]
    ELSE [ok |-> TRUE, err |-> Nil, m |-> m, calls |-> <<>>]

\* json.Marshal of the map: the members present, in sorted key order
RECURSIVE MarshalFrom(_, _)
MarshalFrom(m, i) ==
    IF i > Len(SortedKeys) THEN <<>>
    ELSE LET k == SortedKeys[i] IN
         (IF m[k].t = "absent" THEN <<>> ELSE <<[key |-> k, val |-> m[k]]>>)
            \o MarshalFrom(m, i + 1)
Marshal(m) == MarshalFrom(m, 1)

\* strings.EqualFold against the lower-case tags of keybase1.Confidence
ToLower(k) ==
    CASE k \in {K_uvv, K_UVV} -> K_uvv
      [] k \in {K_vb, K_VB} -> K_vb
      [] OTHER -> k

\* encoding/json: the struct field an object key decodes into: the field
\* whose tag is the key, else one whose tag equals it under case folding,
\* else none ("")
FieldFor(key) ==
    IF key \in {K_uvv, K_vb} THEN key
    ELSE IF ToLower(key) \in {K_uvv, K_vb} THEN ToLower(key)
    ELSE ""

AllStrings(q) == \A j \in 1..Len(q) : q[j].t = "string"
Strings(q) == [j \in 1..Len(q) |-> q[j].s]

\* json.Unmarshal(bytes, &confidence): the members are decoded in the order
\* they appear; a member of the wrong type is skipped and makes the call
\* return an error
RECURSIVE UnmarshalFrom(_, _, _, _)
UnmarshalFrom(members, i, c, bad) ==
    IF i > Len(members) THEN [ok |-> ~bad, confidence |-> c]
    ELSE LET f == FieldFor(members[i].key)
             v == members[i].val
         IN  IF f = K_uvv
             THEN IF v.t = "number"
                  THEN UnmarshalFrom(members, i + 1, [c EXCEPT !.UsernameVerifiedVia = v.n], bad)
                  ELSE UnmarshalFrom(members, i + 1, c, TRUE)
             ELSE IF f = K_vb
             THEN IF v.t = "array" /\ AllStrings(v.a)
                  THEN UnmarshalFrom(members, i + 1, [c EXCEPT !.VouchedBy = Strings(v.a)], bad)
                  ELSE UnmarshalFrom(members, i + 1, c, TRUE)
             ELSE UnmarshalFrom(members, i + 1, c, bad)
Unmarshal(members) == UnmarshalFrom(members, 1, ZeroConfidence, FALSE)

\* the rewrite made on a copy that is written back on success only
standardizeConfidence_atomic(mctx, expansionConfidence) ==
    LET s1 == RewriteVerifiedVia(expansionConfidence) IN
    IF ~s1.ok THEN ConfResult(FALSE, ZeroConfidence, s1.err, expansionConfidence, <<>>)
    ELSE LET s2 == RewriteVouchedBy(mctx, s1.m) IN
         IF ~s2.ok
         THEN ConfResult(FALSE, ZeroConfidence, s2.err, expansionConfidence, s2.calls)
         ELSE LET u == Unmarshal(Marshal(s2.m)) IN
              IF ~u.ok
              THEN ConfResult(FALSE, ZeroConfidence, Errorf("json: cannot unmarshal"),
                              expansionConfidence, s2.calls)
              ELSE ConfResult(TRUE, u.confidence, Nil, s2.m, s2.calls)

\* standardizeConfidence(mctx, expansionConfidence) -> (*keybase1.Confidence, error)
standardizeConfidence(mctx, expansionConfidence) ==
    LET s1 == RewriteVerifiedVia(expansionConfidence) IN
    IF ~s1.ok THEN ConfResult(FALSE, ZeroConfidence, s1.err, s1.m, <<>>)
    ELSE LET s2 == RewriteVouchedBy(mctx, s1.m) IN
         IF ~s2.ok THEN ConfResult(FALSE, ZeroConfidence, s2.err, s2.m, s2.calls)
         ELSE LET u == Unmarshal(Marshal(s2.m)) IN
              IF ~u.ok
              THEN ConfResult(FALSE, ZeroConfidence, Errorf("json: cannot unmarshal"),
                              s2.m, s2.calls)
              ELSE ConfResult(TRUE, u.confidence, Nil, s2.m, s2.calls)

\* ------------------------------------------------------------------ expansion
\* The expansion JSON text a server record carries; what it decodes into is
\* kept with it: whether it parses into wotExpansionDetails, and the user,
\* confidence and vouch_text members.
ExpansionText(decodes, user, confidence, vouchTexts) ==
    [decodes |-> decodes, user |-> user, confidence |-> confidence,
     vouch_text |-> vouchTexts]

\* the content hash the voucher's link commits to
Hash(text) == <<"sha256", text>>

\* ExtractExpansionObj(expansionID, expansionJSON): the bytes, if they hash to
\* the identifier
ExtractExpansionObj(expansionID, expansionJSON) ==
    IF Hash(expansionJSON) = expansionID
    THEN [ok |-> TRUE, obj |-> expansionJSON, err |-> Nil]
    ELSE [ok |-> FALSE, obj |-> expansionJSON, err |-> Errorf("expansion hash mismatch")]

ExpansionCommitment_server(link, serverPending) == Hash(serverPending.ExpansionJSON)
\* wot.go:127  the identifier the text is checked against: wotVouchLink.ExpansionID
ExpansionCommitment(link, serverPending) == link.ExpansionID

\* keybase1.PendingVouch and its zero value
PendingVouch(voucher, proof, vouchTexts, confidence) ==
    [Voucher |-> voucher, Proof |-> proof, VouchTexts |-> vouchTexts,
     Confidence |-> confidence]
ZeroUserVersion == [Uid |-> "", EldestSeqno |-> 0]
ZeroVouch == PendingVouch(ZeroUserVersion, "", <<>>, ZeroConfidence)

\* voucher.ToUserVersion()
ToUserVersion(user) == user.uv

AssembleVouch_noTexts(voucher, serverPending, wotObj, confidence) ==
    PendingVouch(ToUserVersion(voucher), serverPending.SigID, <<>>, confidence)
AssembleVouch_serverSeqno(voucher, serverPending, wotObj, confidence) ==
    PendingVouch([Uid |-> serverPending.UID, EldestSeqno |-> serverPending.EldestSeqno],
                 serverPending.SigID, wotObj.vouch_text, confidence)
\* wot.go:148-153: build a PendingVouch
AssembleVouch(voucher, serverPending, wotObj, confidence) ==
    PendingVouch(ToUserVersion(voucher), serverPending.SigID, wotObj.vouch_text,
                 confidence)

TResult(ok, vouch, e, calls) == [ok |-> ok, vouch |-> vouch, err |-> e, calls |-> calls]

\* transformPending(mctx, serverPending) -> (res keybase1.PendingVouch, err error)
transformPending(mctx, us, m, serverPending) ==
    LET g == getWotVouchChainLink(mctx, us, serverPending.UID, serverPending.SigID) IN
    IF ~g.ok
    THEN TResult(FALSE, ZeroVouch,
                 Wrap("error finding the pending vouch in the voucher's sigchain", g.err),
                 g.calls)
    ELSE
    LET x == ExtractExpansionObj(ExpansionCommitment(g.link, serverPending),
                                 serverPending.ExpansionJSON)
        c1 == Append(g.calls, Call("ExtractExpansionObj", serverPending.SigID))
    IN
    IF ~x.ok
    THEN TResult(FALSE, ZeroVouch,
                 Wrap("error extracting and validating the expansion", x.err), c1)
    ELSE
    LET wotObj == x.obj
        c2 == Append(c1, Call("json.Unmarshal", serverPending.SigID))
    IN
    IF ~wotObj.decodes
    THEN TResult(FALSE, ZeroVouch,
                 Wrap("error casting expansion object to expected web-of-trust schema",
                      Errorf("json: cannot unmarshal")), c2)
    ELSE
    LET a == assertVouchIsForMe(mctx, m, wotObj.user)
        c3 == c2 \o a.calls
    IN
    IF a.err # Nil
    THEN TResult(FALSE, ZeroVouch,
                 Wrap("error verifying user section of web-of-trust expansion", a.err), c3)
    ELSE
    LET s == standardizeConfidence(mctx, wotObj.confidence)
        c4 == c3 \o s.calls
    IN
    IF ~s.ok
    THEN TResult(FALSE, ZeroVouch, Wrap("error standardizing confidence", s.err), c4)
    ELSE TResult(TRUE, AssembleVouch(g.voucher, serverPending, wotObj, s.confidence),
                 Nil, c4)

\* ------------------------------------------------------------------ the batch driver
\* apiPendingWot
ApiPendingWot(uid, seqno, sigID, text) ==
    [UID |-> uid, EldestSeqno |-> seqno, SigID |-> sigID, ExpansionJSON |-> text]

\* GetDecode's outcome: an error, or the decoded GetPendingWotVouches
ApiError == [ok |-> FALSE, Pending |-> <<>>]
ApiResponse(pending) == [ok |-> TRUE, Pending |-> pending]

AppendResult_prepend(r, newPending) == <<newPending>> \o r
\* wot.go:187  res = append(res, newPending)
AppendResult(r, newPending) == Append(r, newPending)

OnTransformError_keep(r) == r
\* wot.go:185  return nil, err
OnTransformError(r) == <<>>

apiArg_noSession == [Endpoint |-> "wot/pending", SessionType |-> "NONE"]
\* wot.go:171-174
apiArg == [Endpoint |-> "wot/pending", SessionType |-> "REQUIRED"]

LoginRequired == Errorf("login required")

ReturnedError_wrapped(e) ==
    Wrap("error validating server-reported pending web-of-trust vouches", e)
\* wot.go:184-185  the message goes to the debug log, the error is returned as is
ReturnedError(e) == e

\* mctx.G().API.GetDecode(mctx, apiArg, &response) -> err
APIGetDecode(mctx, arg, sess, resp) ==
    IF "API.GetDecode" \in mctx THEN [err |-> ContextCanceled]
    ELSE IF arg.SessionType = "REQUIRED" /\ ~sess THEN [err |-> LoginRequired]
    ELSE IF ~resp.ok THEN [err |-> Errorf("API error")]
    ELSE [err |-> Nil]

\* wot.go:171-180: the API call
GetDecode ==
    /\ pc = "start"
    /\ trace' = Append(trace, Call("API.GetDecode", apiArg.Endpoint))
    /\ \E mctx \in Contexts(ctxDone) :
         LET r == APIGetDecode(mctx, apiArg, session, response) IN
         IF r.err # Nil
         THEN /\ err' = r.err
              /\ res' = <<>>
              /\ pc' = "done"
         ELSE /\ pc' = "loop"
              /\ UNCHANGED <<res, err>>
    /\ UNCHANGED <<users, me, response, session, idx, ctxDone, prev>>

\* wot.go:181-188: one iteration of the loop over response.Pending
LoopTransform ==
    /\ pc = "loop"
    /\ idx <= Len(response.Pending)
    /\ \E mctx \in Contexts(ctxDone) :
       LET newPending == transformPending(mctx, users, me, response.Pending[idx]) IN
       /\ trace' = trace \o newPending.calls
       /\ IF newPending.err # Nil
          THEN /\ res' = OnTransformError(res)
               /\ err' = ReturnedError(newPending.err)
               /\ pc' = "done"
               /\ UNCHANGED idx
          ELSE /\ res' = AppendResult(res, newPending.vouch)
               /\ idx' = idx + 1
               /\ UNCHANGED <<pc, err>>
    /\ UNCHANGED <<users, me, response, session, ctxDone, prev>>

\* wot.go:189-190: the loop is over
Return ==
    /\ pc = "loop"
    /\ idx > Len(response.Pending)
    /\ pc' = "done"
    /\ err' = Nil
    /\ UNCHANGED <<users, me, response, session, idx, res, trace, ctxDone, prev>>

Next == GetDecode \/ LoopTransform \/ Return

\* the caller cancels the context while the call runs
Cancel ==
    /\ pc \in {"start", "loop"}
    /\ ~ctxDone
    /\ ctxDone' = TRUE
    /\ UNCHANGED <<users, me, response, session, pc, idx, res, err, trace, prev>>

\* the local identity changes while the call runs (a logout, a login as
\* another user, an account reset): LoadMe yields what it is at the time
MeChanges ==
    /\ pc \in {"start", "loop"}
    /\ me' \in {[ok |-> TRUE, name |-> "alice", uid |-> "uid_alice", kid |-> "kid_7"],
                [ok |-> TRUE, name |-> "bob", uid |-> "uid_bob", kid |-> "kid_8"],
                [ok |-> FALSE, name |-> "", uid |-> "", kid |-> ""]} \ {me}
    /\ UNCHANGED <<users, response, session, pc, idx, res, err, trace, ctxDone, prev>>

NextMe == GetDecode \/ LoopTransform \/ Return \/ MeChanges

\* the named result res is nil at entry, whatever an earlier call returned
ResAtEntry_kept(old) == old
ResAtEntry(old) == <<>>

\* the caller invokes FetchPendingWotVouches again, the world being the same
CallAgain ==
    /\ pc = "done"
    /\ Len(prev) < MaxCalls - 1
    /\ prev' = Append(prev, [res |-> res, err |-> err])
    /\ pc' = "start"
    /\ idx' = 1
    /\ res' = ResAtEntry(res)
    /\ err' = Nil
    /\ trace' = <<>>
    /\ UNCHANGED <<users, me, response, session, ctxDone>>

NextRepeat == GetDecode \/ LoopTransform \/ Return \/ CallAgain

NextCancel == GetDecode \/ LoopTransform \/ Return \/ Cancel

\* ------------------------------------------------------------------ worlds
VoucherUIDs == {UidV, UidX}

\* the local identity, another identity, and a failing LoadMe
MeAlice == [ok |-> TRUE, name |-> "alice", uid |-> UidAlice, kid |-> "kid_7"]
MeBob == [ok |-> TRUE, name |-> "bob", uid |-> UidBob, kid |-> "kid_8"]
MeFails == [ok |-> FALSE, name |-> "", uid |-> "", kid |-> ""]
Mes == {MeAlice, MeBob, MeFails}

Subject(username, uid, kid) == [Username |-> username, UID |-> uid, KID |-> kid]
SubjectAlice == Subject("alice", UidAlice, "kid_7")
Subjects ==
    {Subject(n, u, k) : n \in {"alice", "Alice", "bob"}, u \in {UidAlice, UidBob},
                        k \in {"kid_7", "kid_8"}}

\* confidence maps: a value, or Absent, for every key
ConfMap(uvv, vb, cUVV, cVB, foo) ==
    [k \in ConfKeys |->
        CASE k = K_uvv -> uvv [] k = K_vb -> vb [] k = K_UVV -> cUVV
          [] k = K_VB -> cVB [] k = K_foo -> foo]
EmptyConf == ConfMap(Absent, Absent, Absent, Absent, Absent)

\* sequences over S of length at most n
SeqsUpTo(S, n) == UNION {[1..k -> S] : k \in 0..n}

VbElements == {EStr(UidV), EStr(UidBob), EStr(UidGone), ENum(7)}
UvvValues == {Absent, JStr("video"), JStr("Video"), JStr("audio"), JStr("bogus"), JNum(2)}
VbValues == {Absent, JStr(UidV), JNum(7)} \cup {JArr(q) : q \in SeqsUpTo(VbElements, MaxVouchedBy)}
CaseUvvValues == {Absent, JNum(1), JStr("video")}
CaseVbValues == {Absent, JArr(<<EStr("mallory")>>), JNum(5)}
FooValues == {Absent, JStr("x")}

\* every confidence map of the model
AllConfMaps ==
    {ConfMap(a, b, c, d, e) : a \in UvvValues, b \in VbValues, c \in CaseUvvValues,
                              d \in CaseVbValues, e \in FooValues}

\* a few of them, for the runs that vary the rest of a record
SomeConfMaps ==
    { EmptyConf,
      [EmptyConf EXCEPT ![K_vb] = JArr(<<EStr(UidV)>>)],
      [EmptyConf EXCEPT ![K_uvv] = JStr("video"), ![K_vb] = JArr(<<EStr(UidV), EStr(UidBob)>>)],
      [EmptyConf EXCEPT ![K_uvv] = JStr("bogus")],
      [EmptyConf EXCEPT ![K_uvv] = JNum(2)],
      [EmptyConf EXCEPT ![K_vb] = JArr(<<EStr(UidGone)>>)],
      [EmptyConf EXCEPT ![K_vb] = JArr(<<ENum(7)>>)],
      [EmptyConf EXCEPT ![K_VB] = JNum(5)] }

VouchTextsValues == {<<"Known from conference">>, <<"met at work", "old friend">>}

GoodConf == [EmptyConf EXCEPT ![K_vb] = JArr(<<EStr(UidV)>>)]
GoodText == ExpansionText(TRUE, SubjectAlice, GoodConf, <<"Known from conference">>)
GoodText2 ==
    ExpansionText(TRUE, SubjectAlice,
                  [EmptyConf EXCEPT ![K_uvv] = JStr("video")],
                  <<"met at work", "old friend">>)
BobText == ExpansionText(TRUE, Subject("bob", UidAlice, "kid_7"), GoodConf,
                         <<"Known from conference">>)
BadConfText ==
    ExpansionText(TRUE, SubjectAlice, [EmptyConf EXCEPT ![K_vb] = JArr(<<EStr(UidGone)>>)],
                  <<"Known from conference">>)
\* a text that does not parse into wotExpansionDetails
UndecodableText == ExpansionText(FALSE, Subject("", "", ""), EmptyConf, <<>>)

NoLinks == [s \in SigIDs |-> NoLink]
User(loads, uid, links) ==
    [loads |-> loads, uv |-> [Uid |-> uid, EldestSeqno |-> 1], links |-> links]
UserX == User(FALSE, UidX, NoLinks)

\* the sigchains of the batch runs
BaseLinks ==
    [s \in SigIDs |->
        CASE s = "sig_123" -> Link(FALSE, "wot.vouch", Hash(GoodText))
          [] s = "sig_124" -> Link(FALSE, "wot.vouch", Hash(GoodText2))
          [] s = "sig_rev" -> Link(TRUE, "wot.vouch", Hash(GoodText))
          [] s = "sig_track" -> Link(FALSE, "track", Hash(GoodText))
          [] s = "sig_bob" -> Link(FALSE, "wot.vouch", Hash(BobText))
          [] s = "sig_conf" -> Link(FALSE, "wot.vouch", Hash(BadConfText))
          [] s = "sig_undec" -> Link(FALSE, "wot.vouch", Hash(UndecodableText))
          [] OTHER -> NoLink]
BaseUsers == [u \in VoucherUIDs |-> IF u = UidV THEN User(TRUE, UidV, BaseLinks) ELSE UserX]

\* the records a batch is drawn from: two that verify, and one for each way
\* of failing
BatchRecords ==
    { ApiPendingWot(UidV, 1, "sig_123", GoodText),
      ApiPendingWot(UidV, 2, "sig_124", GoodText2),
      ApiPendingWot(UidX, 1, "sig_123", GoodText),
      ApiPendingWot(UidV, 1, "sig_none", GoodText),
      ApiPendingWot(UidV, 1, "sig_rev", GoodText),
      ApiPendingWot(UidV, 1, "sig_track", GoodText),
      ApiPendingWot(UidV, 1, "sig_123", GoodText2),
      ApiPendingWot(UidV, 1, "sig_undec", UndecodableText),
      ApiPendingWot(UidV, 1, "sig_bob", BobText),
      ApiPendingWot(UidV, 1, "sig_conf", BadConfText) }

Start ==
    /\ pc = "start"
    /\ idx = 1
    /\ res = <<>>
    /\ err = Nil
    /\ trace = <<>>
    /\ ctxDone = FALSE
    /\ prev = <<>>

\* a batch of up to MaxBatch records against the sigchains above
Init ==
    /\ users = BaseUsers
    /\ me \in {MeAlice, MeFails}
    /\ response \in {ApiError} \cup {ApiResponse(q) : q \in SeqsUpTo(BatchRecords, MaxBatch)}
    /\ session \in BOOLEAN
    /\ Start

Spec == Init /\ [][Next]_vars

\* the same batches, fetched MaxCalls times
SpecRepeat == Init /\ [][NextRepeat]_vars

\* the same batches, with a local identity that may change at any point
SpecMe == Init /\ [][NextMe]_vars

\* the same batches, with a context that may be cancelled at any point
SpecCancel == Init /\ [][NextCancel]_vars

\* one record; the voucher's chain holds one link (or none) at sig_123, which
\* commits to the record's text or to another text
OneLinks(link) == [NoLinks EXCEPT !["sig_123"] = link]
LinkChoices(text) ==
    {NoLink} \cup {Link(r, k, h) : r \in BOOLEAN, k \in LinkKinds,
                                   h \in {Hash(text), Hash(UndecodableText)}}
OneUsers(loads, link) ==
    [u \in VoucherUIDs |-> IF u = UidV THEN User(loads, UidV, OneLinks(link)) ELSE UserX]

\* the texts of the one-record runs: every chain outcome against a few texts,
\* every subject, every confidence map
ChainTexts ==
    {UndecodableText} \cup
    {ExpansionText(TRUE, s, c, v) : s \in {SubjectAlice, Subject("bob", UidAlice, "kid_7")},
                                    c \in SomeConfMaps, v \in VouchTextsValues}
SubjectTexts == {ExpansionText(TRUE, s, GoodConf, <<"Known from conference">>) : s \in Subjects}
ConfTexts == {ExpansionText(TRUE, SubjectAlice, c, <<"Known from conference">>) : c \in AllConfMaps}

InitTransform ==
    /\ \E text \in ChainTexts \cup SubjectTexts \cup ConfTexts :
         /\ \/ /\ text \in ChainTexts
               /\ \E loads \in BOOLEAN, link \in LinkChoices(text) :
                    users = OneUsers(loads, link)
               /\ me \in Mes
            \/ /\ text \in SubjectTexts
               /\ users = OneUsers(TRUE, Link(FALSE, "wot.vouch", Hash(text)))
               /\ me \in Mes
            \/ /\ text \in ConfTexts
               /\ users = OneUsers(TRUE, Link(FALSE, "wot.vouch", Hash(text)))
               /\ me = MeAlice
         /\ \E seqno \in {1, 2} :
              response = ApiResponse(<<ApiPendingWot(UidV, seqno, "sig_123", text)>>)
    /\ session = TRUE
    /\ Start

SpecTransform == InitTransform /\ [][Next]_vars

\* ------------------------------------------------------------------ properties
\* What a record is, stated from the world alone (not by running the code).
Done == pc = "done"
OneRecord == response.ok /\ Len(response.Pending) = 1
Rec == response.Pending[1]

TheLink(r) == users[r.UID].links[r.SigID]
LinkIsLiveVouch(r) ==
    /\ users[r.UID].loads
    /\ TheLink(r).exists
    /\ ~TheLink(r).revoked
    /\ TheLink(r).kind = "wot.vouch"
HashMatches(r) == Hash(r.ExpansionJSON) = TheLink(r).ExpansionID
SubjectIsMe(r) ==
    /\ me.ok
    /\ r.ExpansionJSON.user.Username = me.name
    /\ r.ExpansionJSON.user.UID = me.uid
    /\ r.ExpansionJSON.user.KID = me.kid
ReachesAssert(r) == LinkIsLiveVouch(r) /\ HashMatches(r) /\ r.ExpansionJSON.decodes
ReachesConfidence(r) == ReachesAssert(r) /\ SubjectIsMe(r)

IsIdList(v) == v.t = "array" /\ \A j \in 1..Len(v.a) : v.a[j].t = "string"
AllResolve(v) == \A j \in 1..Len(v.a) : Resolves(v.a[j].s)
\* the members that reach a field of the record under another spelling of its
\* key have the field's type
CaseVariantsTyped(m) ==
    /\ m[K_UVV].t \in {"absent", "number"}
    /\ m[K_VB].t = "absent" \/ IsIdList(m[K_VB])
Normalizes(m) ==
    /\ m[K_uvv].t \in {"absent", "string"}
    /\ m[K_vb].t = "absent" \/ (IsIdList(m[K_vb]) /\ AllResolve(m[K_vb]))
    /\ CaseVariantsTyped(m)
AllChecksPass(r) == ReachesConfidence(r) /\ Normalizes(r.ExpansionJSON.confidence)

Rejected == err # Nil /\ res = <<>>
ErrIs(msg) == Len(err) > 0 /\ err[1] = msg
Called(name) == \E j \in 1..Len(trace) : trace[j].call = name

\* C1: transformPending yields a PendingVouch iff the voucher loads, the link
\* with the reported signature id exists, is not revoked and is a vouch link,
\* the server's text hashes to the link's expansion id, the text decodes, its
\* subject is the local identity on username, uid and eldest kid, and the
\* confidence map normalizes; otherwise it yields an error and no PendingVouch.
C1_VouchIffAllChecks ==
    (Done /\ OneRecord) =>
        IF AllChecksPass(Rec)
        THEN err = Nil /\ Len(res) = 1 /\ res[1] # ZeroVouch
        ELSE Rejected
C1_Witness ==
    /\ Done /\ OneRecord /\ AllChecksPass(Rec)
    /\ Len(res) = 1 /\ res[1].Proof = "sig_123"
    /\ Rec.ExpansionJSON.confidence[K_uvv].t = "string"

\* C2: when at least one record of the response fails verification, the call
\* returns a nil result and an error, wherever the failing record stands.
C2_AllOrNothing ==
    (Done /\ response.ok /\ \E k \in 1..Len(response.Pending) : ~AllChecksPass(response.Pending[k]))
        => Rejected
C2_Witness ==
    /\ Done /\ response.ok /\ Len(response.Pending) = 2
    /\ AllChecksPass(response.Pending[1])
    /\ ~AllChecksPass(response.Pending[2])
    /\ Rejected

\* C3: a record whose link is revoked yields no PendingVouch, whatever the
\* link's type, the expansion text, the subject and the confidence.
C3_RevokedNeverVouches ==
    (Done /\ OneRecord /\ users[Rec.UID].loads /\ TheLink(Rec).exists /\ TheLink(Rec).revoked)
        => (Rejected /\ err = <<"error finding the pending vouch in the voucher's sigchain",
                               "Link is revoked">>)
C3_Witness ==
    /\ Done /\ OneRecord
    /\ users[Rec.UID].loads /\ TheLink(Rec).exists /\ TheLink(Rec).revoked
    /\ TheLink(Rec).kind = "wot.vouch" /\ HashMatches(Rec) /\ Rec.ExpansionJSON.decodes
    /\ SubjectIsMe(Rec) /\ Normalizes(Rec.ExpansionJSON.confidence)
    /\ Rejected

\* C4: the text is checked against the expansion id of the voucher's link; a
\* text that does not hash to it is rejected before it is decoded, compared
\* with the local identity or used in a username lookup, and a text that does
\* hash to it passes the check.
C4_HashBinding ==
    (Done /\ OneRecord /\ LinkIsLiveVouch(Rec)) =>
        IF HashMatches(Rec)
        THEN ~ErrIs("error extracting and validating the expansion")
        ELSE /\ Rejected
             /\ ErrIs("error extracting and validating the expansion")
             /\ ~Called("json.Unmarshal") /\ ~Called("LoadMe") /\ ~Called("LookupUsername")
C4_Witness ==
    /\ Done /\ OneRecord /\ LinkIsLiveVouch(Rec) /\ ~HashMatches(Rec)
    /\ Rec.ExpansionJSON.decodes /\ SubjectIsMe(Rec)
    /\ Rec.ExpansionJSON.confidence[K_vb].t = "array"
    /\ Rejected /\ ~Called("LoadMe")

\* C5: with the local user loaded, assertVouchIsForMe succeeds exactly when
\* the subject's username, uid and eldest kid all equal the local user's; the
\* username comparison is exact ("Alice" is not "alice").
AssertFailed == ErrIs("error verifying user section of web-of-trust expansion")
C5_SubjectBinding ==
    (Done /\ OneRecord /\ ReachesAssert(Rec) /\ me.ok) =>
        LET u == Rec.ExpansionJSON.user IN
        /\ AssertFailed <=> ~(u.Username = me.name /\ u.UID = me.uid /\ u.KID = me.kid)
        /\ AssertFailed => Rejected
C5_Witness ==
    /\ Done /\ OneRecord /\ ReachesAssert(Rec) /\ me = MeAlice
    /\ Rec.ExpansionJSON.user = Subject("alice", UidAlice, "kid_8")
    /\ AssertFailed

\* the confidence map of the record and the normalizer's outcome, in the
\* runs of one record that reaches standardizeConfidence
RecConf == Rec.ExpansionJSON.confidence
ConfFailed == ErrIs("error standardizing confidence")
AtConfidence == Done /\ OneRecord /\ ReachesConfidence(Rec)

\* C6: a username_verified_via string that is, after case folding, no key of
\* the verification-method table makes standardizeConfidence fail and yield no
\* ConfidenceRecord.
C6_UnknownMethodFails ==
    (AtConfidence /\ RecConf[K_uvv].t = "string"
        /\ ToUpper(RecConf[K_uvv].s) \notin DOMAIN UsernameVerificationTypeMap)
        => (ConfFailed /\ Rejected)

\* the record as a confidence map: the verification method as its code,
\* vouched_by as the usernames
CanonicalMap(c) ==
    [EmptyConf EXCEPT ![K_uvv] = JNum(c.UsernameVerifiedVia),
                      ![K_vb] = JArr([j \in 1..Len(c.VouchedBy) |-> EStr(c.VouchedBy[j])])]

\* C7 as stated: the ConfidenceRecord standardizeConfidence produced, fed back
\* as its input map, is normalized to the same record.
C7_Idempotent ==
    (AtConfidence /\ err = Nil) =>
        LET c == res[1].Confidence
            again == standardizeConfidence(Background, CanonicalMap(c))
        IN  again.ok /\ again.confidence = c

\* C7 amended: fed back with the verification method as its code, every
\* record standardizeConfidence produced is refused (the code is not a
\* string) and no lookup is made; only the map holding neither key is
\* normalized to its own record again.
C7_RefeedRefused ==
    (AtConfidence /\ err = Nil) =>
        LET c == res[1].Confidence
            again == standardizeConfidence(Background, CanonicalMap(c))
            empty == standardizeConfidence(Background, EmptyConf)
        IN  /\ ~again.ok
            /\ again.err = Errorf("cannot convert into UsernameVerifiedVia")
            /\ again.calls = <<>>
            /\ empty.ok /\ empty.confidence = ZeroConfidence
C7_Witness ==
    /\ AtConfidence /\ err = Nil
    /\ res[1].Confidence.UsernameVerifiedVia = 2
    /\ res[1].Confidence.VouchedBy = <<"victor">>

\* C8: when vouched_by is a sequence of id strings that all resolve, the
\* record returned has a vouched-by sequence of the same length whose i-th
\* element is the username looked up for the i-th id; when no record is
\* returned, another member of the map is at fault.
C8_VouchedByResolved ==
    (AtConfidence /\ IsIdList(RecConf[K_vb]) /\ AllResolve(RecConf[K_vb])) =>
        IF err = Nil
        THEN /\ Len(res) = 1
             /\ Len(res[1].Confidence.VouchedBy) = Len(RecConf[K_vb].a)
             /\ \A j \in 1..Len(RecConf[K_vb].a) :
                    res[1].Confidence.VouchedBy[j] = UsernameOf(RecConf[K_vb].a[j].s)
        ELSE /\ ConfFailed
             /\ RecConf[K_uvv].t \notin {"absent", "string"} \/ ~CaseVariantsTyped(RecConf)
C8_Witness ==
    /\ AtConfidence /\ err = Nil
    /\ RecConf[K_vb] = JArr(<<EStr(UidBob), EStr(UidV)>>)
    /\ RecConf[K_VB].t = "array"
    /\ res[1].Confidence.VouchedBy = <<"bob", "victor">>

\* C9: standardizeConfidence fails and returns no record when
\* username_verified_via is present and no string, vouched_by is present and
\* no sequence, an element of vouched_by is no string, or the lookup fails
\* for one of its ids.
C9_IllTypedOrUnresolvedFails ==
    (AtConfidence /\
        \/ RecConf[K_uvv].t \notin {"absent", "string"}
        \/ RecConf[K_vb].t \notin {"absent", "array"}
        \/ /\ RecConf[K_vb].t = "array"
           /\ \E j \in 1..Len(RecConf[K_vb].a) :
                \/ RecConf[K_vb].a[j].t # "string"
                \/ ~Resolves(RecConf[K_vb].a[j].s))
        => (ConfFailed /\ Rejected)
C9_Witness ==
    /\ AtConfidence
    /\ RecConf[K_uvv] = JStr("video")
    /\ RecConf[K_vb] = JArr(<<EStr(UidV), EStr(UidGone)>>)
    /\ ConfFailed /\ Rejected

\* C10: a key that is no key of the ConfidenceRecord schema (a key that
\* differs from one in letter case included) changes neither whether
\* standardizeConfidence succeeds nor the record it returns: the outcome is
\* that of the map without the key.
C10_UnknownKeysInert ==
    AtConfidence =>
        \A k \in {K_UVV, K_VB, K_foo} :
            LET without == standardizeConfidence(Background, [RecConf EXCEPT ![k] = Absent]) IN
            /\ (err = Nil) = without.ok
            /\ err = Nil => res[1].Confidence = without.confidence

\* what the normalizer makes of a map that normalizes, stated from the map:
\* the code of the method string (0 when there is none), the usernames of the
\* ids; a member under another spelling of a key fills a field its own key
\* leaves empty
ExpectedVia(m) ==
    IF m[K_uvv].t = "string" THEN MapIndex(UsernameVerificationTypeMap, ToUpper(m[K_uvv].s))
    ELSE IF m[K_UVV].t = "number" THEN m[K_UVV].n
    ELSE 0
ExpectedBy(m) ==
    IF m[K_vb].t = "array" THEN [j \in 1..Len(m[K_vb].a) |-> UsernameOf(m[K_vb].a[j].s)]
    ELSE IF m[K_VB].t = "array" THEN [j \in 1..Len(m[K_VB].a) |-> m[K_VB].a[j].s]
    ELSE <<>>

\* C11: a PendingVouch returned by transformPending has the user version of
\* the loaded voucher, the signature id of the server record as proof, the
\* vouch_text of the hash-verified expansion in its order, and the
\* normalizer's output for that expansion's confidence map.
C11_VouchFields ==
    (Done /\ OneRecord /\ err = Nil) =>
        /\ Len(res) = 1
        /\ HashMatches(Rec)
        /\ res[1].Voucher = users[Rec.UID].uv
        /\ res[1].Proof = Rec.SigID
        /\ res[1].VouchTexts = Rec.ExpansionJSON.vouch_text
        /\ res[1].Confidence = Confidence(ExpectedVia(RecConf), ExpectedBy(RecConf))
C11_Witness ==
    /\ Done /\ OneRecord /\ err = Nil
    /\ Rec.EldestSeqno = 2
    /\ res[1].Voucher = [Uid |-> UidV, EldestSeqno |-> 1]
    /\ res[1].VouchTexts = <<"met at work", "old friend">>
    /\ res[1].Confidence = Confidence(2, <<"victor", "bob">>)

\* the calls the first n records of the response cause, record after record
RECURSIVE CallsOfRecords(_)
CallsOfRecords(n) ==
    IF n = 0 THEN <<>>
    ELSE CallsOfRecords(n - 1)
            \o transformPending(Background, users, me, response.Pending[n]).calls

\* C12: on success the result holds one PendingVouch per record of the
\* response, the i-th assembled from the i-th record; the records are
\* processed one after another in that order (while the loop runs, the
\* result and the calls made are those of the records before idx); an empty
\* response gives an empty result and no error.
C12_OnePerRecordInOrder ==
    /\ (pc = "loop" /\ ~ctxDone) =>
            /\ Len(res) = idx - 1
            /\ trace = <<Call("API.GetDecode", "wot/pending")>> \o CallsOfRecords(idx - 1)
    /\ (Done /\ response.ok /\ err = Nil /\ ~ctxDone) =>
            /\ Len(res) = Len(response.Pending)
            /\ \A i \in 1..Len(res) :
                 /\ res[i] = transformPending(Background, users, me, response.Pending[i]).vouch
                 /\ res[i].Proof = response.Pending[i].SigID
                 /\ res[i].VouchTexts = response.Pending[i].ExpansionJSON.vouch_text
            /\ trace = <<Call("API.GetDecode", "wot/pending")>>
                          \o CallsOfRecords(Len(response.Pending))
    /\ (Done /\ session /\ response.ok /\ Len(response.Pending) = 0 /\ ~ctxDone) =>
            (res = <<>> /\ err = Nil)
C12_Witness ==
    /\ Done /\ err = Nil /\ Len(res) = 2
    /\ response.Pending[1].SigID = "sig_124" /\ response.Pending[2].SigID = "sig_123"
    /\ res[1].Proof = "sig_124" /\ res[2].Proof = "sig_123"

ErrHas(msg) == \E j \in 1..Len(err) : err[j] = msg
Count(name) == Cardinality({j \in 1..Len(trace) : trace[j].call = name})

\* C13 as stated: once the context is cancelled while the call runs, the
\* call ends with an error and no result.
C13_CancelAborts ==
    (Done /\ ctxDone) => Rejected

\* C13 amended: the call does not test the context itself. A cancellation
\* ends it only through a call that is handed the context and reports it:
\* the call then returns that error and a nil result, and no record after
\* the one being processed is started. The API call made on a cancelled
\* context always ends the call so, before any record is processed.
C13_CancelState ==
    /\ ~ctxDone => ~ErrHas("context canceled")
    /\ (Done /\ ErrHas("context canceled")) =>
            /\ Rejected
            /\ Count("API.GetDecode") = 1
            /\ IF err = ContextCanceled
               THEN Count("LoadUser") = 0
               ELSE idx <= Len(response.Pending) /\ Count("LoadUser") = idx
C13_CancelStep ==
    (pc = "start" /\ ctxDone /\ pc' # "start") =>
        (pc' = "done" /\ err' = ContextCanceled /\ res' = <<>> /\ Len(trace') = 1)
C13_CancelThroughCalls == [](C13_CancelState) /\ [][C13_CancelStep]_vars
C13_Witness ==
    /\ Done /\ ctxDone /\ Len(response.Pending) = 2 /\ idx = 2
    /\ ErrHas("context canceled") /\ Rejected
    /\ Count("LoadUser") = 2 /\ Count("LookupUsername") = 2

\* C14: the call changes nothing of the voucher chains, the local identity
\* or the server response, and keeps nothing from an earlier invocation: an
\* invocation that sees the same world as an earlier one returns what the
\* earlier one returned, vouches and error alike.
C14_SameOutcome ==
    (Done /\ prev # <<>>) => prev[Len(prev)] = [res |-> res, err |-> err]
C14_ReadOnly ==
    users' = users /\ me' = me /\ response' = response /\ session' = session
C15_OneSessionCall ==
    pc # "start" =>
        /\ Count("API.GetDecode") = 1
        /\ trace[1] = Call("API.GetDecode", "wot/pending")
        /\ ~session => err = LoginRequired
        /\ (~session \/ ~response.ok) =>
                Done /\ Rejected /\ err # Nil /\ Len(trace) = 1
C15_Witness ==
    /\ Done /\ ~session
    /\ response.ok /\ Len(response.Pending) = 2
    /\ AllChecksPass(response.Pending[1])
    /\ Rejected

\* the first check a record fails, in the order of the claim (0: none)
FirstFailure(r) ==
    CASE ~users[r.UID].loads -> 1
      [] ~TheLink(r).exists -> 2
      [] TheLink(r).revoked -> 3
      [] TheLink(r).kind # "wot.vouch" -> 4
      [] ~HashMatches(r) -> 5
      [] ~r.ExpansionJSON.decodes -> 6
      [] ~SubjectIsMe(r) -> 7
      [] ~Normalizes(r.ExpansionJSON.confidence) -> 8
      [] OTHER -> 0
\* the messages that tell the check an error comes from
FailureMessages(step) ==
    CASE step = 1 -> {"Error loading user"}
      [] step = 2 -> {"Could not find link from sigID"}
      [] step = 3 -> {"Link is revoked"}
      [] step = 4 -> {"Could not get typed chain link", "Link is not a WotVouchChainLink"}
      [] step = 5 -> {"error extracting and validating the expansion"}
      [] step = 6 -> {"error casting expansion object to expected web-of-trust schema"}
      [] step = 7 -> {"error verifying user section of web-of-trust expansion"}
      [] step = 8 -> {"error standardizing confidence"}
      [] OTHER -> {}
\* the number of checks that a record fails
Failures(r) ==
    Cardinality({k \in 1..8 :
        \/ k = 1 /\ ~users[r.UID].loads
        \/ k = 2 /\ ~TheLink(r).exists
        \/ k = 3 /\ TheLink(r).revoked
        \/ k = 4 /\ TheLink(r).kind # "wot.vouch"
        \/ k = 5 /\ ~HashMatches(r)
        \/ k = 6 /\ ~r.ExpansionJSON.decodes
        \/ k = 7 /\ ~SubjectIsMe(r)
        \/ k = 8 /\ ~Normalizes(r.ExpansionJSON.confidence)})

\* C16: a record's checks run in the order voucher load, link lookup,
\* revocation, type narrowing, expansion hash, decode, self-identity,
\* confidence; the error returned is that of the first check in this order
\* that the record fails, whatever later checks it would fail too, and
\* nothing of a later step is called.
C16_FailFastOrder ==
    (Done /\ OneRecord) =>
        LET step == FirstFailure(Rec) IN
        /\ step = 0 <=> err = Nil
        /\ step \in 1..4 =>
                /\ err[1] = "error finding the pending vouch in the voucher's sigchain"
                /\ err[2] \in FailureMessages(step)
                /\ Len(trace) = 2
        /\ step \in 5..8 => err[1] \in FailureMessages(step)
        /\ trace[2].call = "LoadUser"
        /\ Called("ExtractExpansionObj") <=> step \notin 1..4
        /\ Called("json.Unmarshal") <=> step \notin 1..5
        /\ Called("LoadMe") <=> step \notin 1..6
        /\ Called("LookupUsername") => step \in {0, 8}
C16_Witness ==
    /\ Done /\ OneRecord
    /\ TheLink(Rec).exists /\ TheLink(Rec).revoked /\ TheLink(Rec).kind = "track"
    /\ ~HashMatches(Rec) /\ ~SubjectIsMe(Rec)
    /\ Failures(Rec) >= 4
    /\ err[2] = "Link is revoked"

Invalid(k) == ~AllChecksPass(response.Pending[k])
FirstInvalid == CHOOSE k \in 1..Len(response.Pending) :
                    Invalid(k) /\ \A j \in 1..(k - 1) : ~Invalid(j)
ErrorOf(k) == transformPending(Background, users, me, response.Pending[k]).err

\* C17: when records of the batch are invalid, the error returned is the
\* very error transformPending gives for the invalid record of smallest
\* index, and the calls made are those of the records up to that one: no
\* load, expansion check or lookup is made for a later record.
C17_FirstErrorVerbatim ==
    (Done /\ session /\ response.ok /\ \E k \in 1..Len(response.Pending) : Invalid(k)) =>
        /\ err = ErrorOf(FirstInvalid)
        /\ idx = FirstInvalid
        /\ trace = <<Call("API.GetDecode", "wot/pending")>> \o CallsOfRecords(FirstInvalid)
        /\ Count("LoadUser") = FirstInvalid
C17_Witness ==
    /\ Done /\ session /\ response.ok /\ Len(response.Pending) = 2
    /\ Invalid(1) /\ Invalid(2)
    /\ ErrorOf(1) # ErrorOf(2)
    /\ err = ErrorOf(1)
    /\ Count("LoadUser") = 1

SubjectOf(r) == r.ExpansionJSON.user
\* the fields of the record's subject that disagree with the local identity
Disagreeing(r) ==
    {f \in {"username", "uid", "eldest kid"} :
        \/ f = "username" /\ SubjectOf(r).Username # me.name
        \/ f = "uid" /\ SubjectOf(r).UID # me.uid
        \/ f = "eldest kid" /\ SubjectOf(r).KID # me.kid}
FieldNamed ==
    CASE err[2] = "wot username isn't me" -> "username"
      [] err[2] = "wot uid isn't me" -> "uid"
      [] err[2] = "wot eldest kid isn't me" -> "eldest kid"
      [] OTHER -> "none"
SubjectMismatch ==
    /\ Len(err) = 2
    /\ err[1] = "error verifying user section of web-of-trust expansion"
    /\ FieldNamed # "none"

\* C18: a subject-mismatch error names a field of the subject that really
\* differs from the local identity, and of the differing fields the first
\* in the order username, uid, eldest kid; a subject that differs is
\* refused with such an error.
C18_FirstDisagreeingField ==
    (Done /\ OneRecord) =>
        /\ SubjectMismatch =>
                /\ FieldNamed \in Disagreeing(Rec)
                /\ FieldNamed = "uid" => "username" \notin Disagreeing(Rec)
                /\ FieldNamed = "eldest kid" => Disagreeing(Rec) = {"eldest kid"}
        /\ (ReachesAssert(Rec) /\ me.ok /\ Disagreeing(Rec) # {}) => SubjectMismatch
C18_Witness ==
    /\ Done /\ OneRecord /\ me.ok
    /\ Cardinality(Disagreeing(Rec)) = 3
    /\ SubjectMismatch /\ FieldNamed = "username"

\* the record with the other eldest seqno reported by the server
OtherSeqno(r) == [r EXCEPT !.EldestSeqno = 3 - @]

\* C19: the eldest seqno the server reports for the voucher has no say: the
\* record that differs in it alone has the same outcome, error or vouch,
\* and the vouch's voucher version is that of the loaded voucher, also
\* when the server reported another.
C19_SeqnoNoInfluence ==
    (Done /\ OneRecord) =>
        LET t == transformPending(Background, users, me, OtherSeqno(Rec)) IN
        /\ t.err = err
        /\ err = Nil =>
                /\ res = <<t.vouch>>
                /\ res[1].Voucher = ToUserVersion(users[Rec.UID])
C19_Witness ==
    /\ Done /\ OneRecord /\ err = Nil /\ Len(res) = 1
    /\ Rec.EldestSeqno # users[Rec.UID].uv.EldestSeqno
    /\ OtherSeqno(Rec).EldestSeqno = users[Rec.UID].uv.EldestSeqno

\* the caller's map as standardizeConfidence leaves it
MapAfter(m) == standardizeConfidence(Background, m).m
Usernames(v) == JArr([j \in 1..Len(v.a) |-> EStr(UsernameOf(v.a[j].s))])
\* vouched_by is present and is not a list of ids that all resolve
FailsInVouchedBy(m) ==
    /\ m[K_uvv].t \in {"absent", "string"}
    /\ m[K_vb].t # "absent"
    /\ ~(IsIdList(m[K_vb]) /\ AllResolve(m[K_vb]))

\* C20: standardizeConfidence rewrites the map it is given. A string
\* username_verified_via is replaced by its code before vouched_by is looked
\* at, vouched_by is replaced by the usernames only when it is a list of ids
\* that all resolve, and no other key is touched. So a failure inside
\* vouched_by leaves the ids in place next to the rewritten code, and a map
\* with neither key is left as it was.
C20_InPlaceNotAtomic ==
    AtConfidence =>
        LET m0 == RecConf
            m1 == MapAfter(RecConf)
        IN
        /\ \A k \in ConfKeys \ {K_uvv, K_vb} : m1[k] = m0[k]
        /\ m1[K_uvv] = IF m0[K_uvv].t = "string"
                       THEN JNum(VerificationCode(m0[K_uvv].s)) ELSE m0[K_uvv]
        /\ m1[K_vb] = IF m0[K_uvv].t \in {"absent", "string"}
                         /\ IsIdList(m0[K_vb]) /\ AllResolve(m0[K_vb])
                      THEN Usernames(m0[K_vb]) ELSE m0[K_vb]
        /\ FailsInVouchedBy(m0) => (ConfFailed /\ Rejected /\ m1[K_vb] = m0[K_vb])
        /\ (m0[K_uvv].t = "absent" /\ m0[K_vb].t = "absent") => m1 = m0
C20_Witness ==
    /\ AtConfidence /\ ConfFailed
    /\ RecConf[K_uvv].t = "string" /\ FailsInVouchedBy(RecConf)
    /\ Len(RecConf[K_vb].a) = 2 /\ Called("LookupUsername")
    /\ MapAfter(RecConf)[K_uvv].t = "number"
    /\ MapAfter(RecConf)[K_vb] = RecConf[K_vb]

\* C21: the local identity is loaded once for every record that reaches the
\* self-identity step, right after that record's expansion was hash-checked
\* and decoded, and never for the batch as a whole. A record is accepted
\* only when the identity loads at that moment and is the record's subject;
\* when the load fails the batch is rejected with that error.
C21_LoadState ==
    /\ err = Nil => Count("LoadMe") = Len(res)
    /\ \A j \in 1..Len(trace) :
            trace[j].call = "LoadMe" =>
                /\ j > 3
                /\ trace[j - 1].call = "json.Unmarshal"
                /\ trace[j - 2].call = "ExtractExpansionObj"
                /\ trace[j - 3].call = "LoadUser"
    /\ ErrHas("error loading myself") =>
            Done /\ Rejected /\ trace[Len(trace)].call = "LoadMe"
C21_LoadStep ==
    /\ (pc = "loop" /\ idx' = idx + 1) =>
            /\ me.ok
            /\ SubjectEqual(me, response.Pending[idx].ExpansionJSON.user) = Nil
            /\ Len(trace') > Len(trace)
            /\ \E j \in (Len(trace) + 1)..Len(trace') : trace'[j].call = "LoadMe"
    /\ (pc = "loop" /\ trace' # trace /\ ~me.ok /\ ReachesAssert(response.Pending[idx])) =>
            /\ pc' = "done"
            /\ res' = <<>>
            /\ err' = <<"error verifying user section of web-of-trust expansion",
                        "error loading myself", "load failed">>
C21_LoadMePerRecord == [](C21_LoadState) /\ [][C21_LoadStep]_vars
\* two records of one subject that pass every other check: the first was
\* accepted, the identity changed, and the second was compared with the
\* identity loaded for it
C21_Witness ==
    /\ Done /\ session /\ response.ok /\ Len(response.Pending) = 2 /\ idx = 2
    /\ \A k \in 1..2 : /\ ReachesAssert(response.Pending[k])
                        /\ Normalizes(response.Pending[k].ExpansionJSON.confidence)
                        /\ response.Pending[k].ExpansionJSON.user = SubjectAlice
    /\ Count("LoadMe") = 2
    /\ err = <<"error verifying user section of web-of-trust expansion",
               "wot username isn't me">>

====
